---- MODULE Spec2Model ----
(***************************************************************************)
(* ts3automovebot: a poller that moves idle TeamSpeak clients to an AFK    *)
(* channel.  The repository holds three revisions of the program, each a   *)
(* complete `package main`:                                                *)
(*   "main.go"   src/main.go           no solo check, list errors fatal    *)
(*   "part_001"  src/unnamed/part_001  soloClients slice and grace skip    *)
(*   "part_002"  src/unnamed/part_002  processClients, recentJoins map,    *)
(*                                     AllowGracePeriod, nested client loop*)
(* A run of the model is a run of one revision (variable rev).             *)
(***************************************************************************)
EXTENDS Integers, Sequences, FiniteSets, TLC

\* ------------------------------------------------------------------ bounds
NumClients == 2
MaxCycles == 3
MaxSolo == 3
MaxIdleTimeSec == 60

\* ------------------------------------------------------------ configuration
Revisions == {"main.go", "part_001", "part_002"}
AfkChannelName == "AFK"
IgnoredChannels == <<"Quiet">>
MaxIdleTimeMs == MaxIdleTimeSec * 1000

\* ------------------------------------------------- what the server can answer
ChannelNames == {"Lobby", "AFK", "Quiet"}
ChanIds == {1, 2, 3}
ClientIds == 1..NumClients
\* the threshold itself and the first idle time above it
IdleTimes == {MaxIdleTimeMs, MaxIdleTimeMs + 1}

\* ChannelList(): the channels of the server, ids in server order
ChannelSnapshots ==
    {s \in [ChanIds -> [ID : ChanIds, ChannelName : ChannelNames]] :
        \A k \in ChanIds : s[k].ID = k}

Injective(s) == \A a, b \in DOMAIN s : s[a].ID = s[b].ID => a = b

\* ClientList(): online clients in any order, each in one channel
ClientSnapshots ==
    UNION {{s \in [1..n -> [ID : ClientIds, ChannelID : ChanIds]] : Injective(s)} :
              n \in 0..NumClients}

\* Exec("clientinfo clid=..."): an error, a line without client_idle_time=<digits>,
\* digits that do not fit an int, or an idle time in milliseconds
ClientInfoResponses ==
    {[kind |-> "error", idle |-> 0], [kind |-> "nomatch", idle |-> 0],
     [kind |-> "range", idle |-> 0]}
    \cup [kind : {"match"}, idle : IdleTimes]

VARIABLES
    rev,                 \* the revision that runs
    allowGracePeriod,    \* TS3_ALLOW_GRACE_PERIOD as the operator set it
    pc,                  \* position of main
    cycle,               \* number of the current poll cycle
    channels,            \* channels of this cycle
    afkChannelId,
    allowedIdleChannels,
    clients,             \* clients of this cycle
    i,                   \* index of the (outer) client loop
    j,                   \* index of the inner client loop of part_002
    soloClients,         \* part_001: var soloClients []int
    recentJoins,         \* part_002: var recentJoins map[int]time.Time
    moves,               \* clientmove commands sent in this cycle, in order
    fetched,             \* <<client id, idle time>> parsed in this cycle
    soloAtStart,         \* soloClients when this cycle began
    listErr,             \* the list call that failed in this cycle, or "none"
    err,                 \* main's err during startup: "nil" or the call that failed
    cmds,                \* clientinfo and clientmove commands of this cycle, in order
    moveFailed,          \* ids whose clientmove returned an error in this cycle
    graced               \* ids that were recorded solo and then skipped, last cycle

vars == <<rev, allowGracePeriod, pc, cycle, channels, afkChannelId,
          allowedIdleChannels, clients, i, j, soloClients, recentJoins,
          moves, fetched, soloAtStart, listErr, err, cmds, moveFailed, graced>>

Range(s) == {s[k] : k \in DOMAIN s}

\* ------------------------------------------------------------------ helpers

\* for _, channel := range channels { if channel.ChannelName == config.AfkChannelName
\* { afkChannelId = channel.ID } }: the last match wins, 0 when there is none
RECURSIVE AfkScan(_, _, _)
AfkScan(chs, k, acc) ==
    IF k > Len(chs) THEN acc
    ELSE AfkScan(chs, k + 1,
                 IF chs[k].ChannelName = AfkChannelName THEN chs[k].ID ELSE acc)

\* for _, ignoredChannel := range config.IgnoredChannels: one append per match
RECURSIVE IgnoredScan(_, _, _)
IgnoredScan(ch, n, acc) ==
    IF n > Len(IgnoredChannels) THEN acc
    ELSE IgnoredScan(ch, n + 1,
                     IF ch.ChannelName = IgnoredChannels[n]
                     THEN Append(acc, ch.ID) ELSE acc)

RECURSIVE AllowedScan(_, _, _)
AllowedScan(chs, k, acc) ==
    IF k > Len(chs) THEN acc
    ELSE AllowedScan(chs, k + 1, IgnoredScan(chs[k], 1, acc))

\* main.go
contains(chs, id) == \E k \in 1..Len(chs) : chs[k] = id

\* a scan that returns after the first element
isChannelIgnored_firstOnly(chs, id) == Len(chs) > 0 /\ chs[1] = id

\* part_001, part_002
isChannelIgnored(chs, id) == \E k \in 1..Len(chs) : chs[k] = id

\* idleTimeRegex.FindStringSubmatch, then strconv.Atoi
IdleParsed(r) == r.kind = "match"

\* removal of the first element equal to id: append(s[:i], s[i+1:]...)
RemoveFirst(s, id) ==
    LET k == CHOOSE m \in 1..Len(s) :
                 s[m] = id /\ \A n \in 1..(m - 1) : s[n] # id
    IN  SubSeq(s, 1, k - 1) \o SubSeq(s, k + 1, Len(s))

\* part_001: the loop over c2 that decides isSolo and isGracePeriod and
\* rewrites soloClients.  st = [isSolo, isGracePeriod, soloClients]
RECURSIVE SoloScan(_, _, _, _)
SoloScan(cl, c, k, st) ==
    IF k > Len(cl) THEN st
    ELSE IF cl[k].ChannelID = c.ChannelID /\ cl[k].ID # c.ID
         THEN IF \E m \in 1..Len(st.soloClients) : st.soloClients[m] = c.ID
              THEN [isSolo |-> FALSE, isGracePeriod |-> TRUE,
                    soloClients |-> RemoveFirst(st.soloClients, c.ID)]
              ELSE [st EXCEPT !.isSolo = FALSE]
         ELSE SoloScan(cl, c, k + 1,
                       [st EXCEPT !.isSolo = TRUE,
                                  !.soloClients = Append(@, c.ID)])

\* part_002: isSolo := true; for _, c2 := range clients { ... isSolo = false; break }
isSolo(cl, c) ==
    ~ \E k \in 1..Len(cl) : cl[k].ChannelID = c.ChannelID /\ cl[k].ID # c.ID

\* part_002: joinTime, ok := recentJoins[c.ChannelID]; ok &&
\* time.Since(joinTime) <= 10*time.Second.  The clock is not part of the state:
\* within10s says whether the entry, when there is one, is at most 10 s old.
\* the check without the map lookup's ok
RecentJoin_noLookup(c, within10s) == within10s

RecentJoin(c, within10s) ==
    /\ c.ChannelID \in DOMAIN recentJoins
    /\ within10s

\* ------------------------------------------------- decisions for one client
\* Each returns what the loop body does for client c when clientinfo answers r:
\* move = a clientmove to afkChannelId is sent, solo = soloClients afterwards.

Decide_main_go(c, r) ==
    [move |-> /\ IdleParsed(r)
              /\ r.idle > MaxIdleTimeMs
              /\ ~ contains(allowedIdleChannels, c.ChannelID)
              /\ c.ChannelID # afkChannelId,
     solo |-> soloClients]

\* the decision with the solo scan ahead of the ignored and AFK channel checks
Decide_part_001_soloScanFirst(c, r) ==
    IF /\ IdleParsed(r)
       /\ r.idle > MaxIdleTimeMs
    THEN LET st == SoloScan(clients, c, 1,
                            [isSolo |-> FALSE, isGracePeriod |-> FALSE,
                             soloClients |-> soloClients])
         IN  [move |-> /\ ~ isChannelIgnored(allowedIdleChannels, c.ChannelID)
                       /\ c.ChannelID # afkChannelId
                       /\ ~ st.isSolo /\ ~ st.isGracePeriod,
              solo |-> st.soloClients]
    ELSE [move |-> FALSE, solo |-> soloClients]

Decide_part_001(c, r) ==
    IF /\ IdleParsed(r)
       /\ r.idle > MaxIdleTimeMs
       /\ ~ isChannelIgnored(allowedIdleChannels, c.ChannelID)
       /\ c.ChannelID # afkChannelId
    THEN LET st == SoloScan(clients, c, 1,
                            [isSolo |-> FALSE, isGracePeriod |-> FALSE,
                             soloClients |-> soloClients])
         IN  [move |-> ~ st.isSolo /\ ~ st.isGracePeriod,
              solo |-> st.soloClients]
    ELSE [move |-> FALSE, solo |-> soloClients]

\* the decision without the already-in-afk-channel check
Decide_part_002_noAfkCheck(c, r) ==
    [move |-> /\ IdleParsed(r)
              /\ r.idle > MaxIdleTimeMs
              /\ ~ isChannelIgnored(allowedIdleChannels, c.ChannelID)
              /\ ~ isSolo(clients, c),
     solo |-> soloClients]

Decide_part_002(c, r) ==
    [move |-> /\ IdleParsed(r)
              /\ r.idle > MaxIdleTimeMs
              /\ ~ isChannelIgnored(allowedIdleChannels, c.ChannelID)
              /\ c.ChannelID # afkChannelId
              /\ ~ isSolo(clients, c),
     solo |-> soloClients]

\* ----------------------------------------------------------------- the state
Init ==
    /\ rev \in Revisions
    /\ allowGracePeriod \in BOOLEAN
    /\ pc = "startup"
    /\ cycle = 1
    /\ channels = <<>>
    /\ afkChannelId = 0
    /\ allowedIdleChannels = <<>>
    /\ clients = <<>>
    /\ i = 1
    /\ j = 1
    /\ soloClients = <<>>
    /\ recentJoins = <<>>
    /\ moves = <<>>
    /\ fetched = {}
    /\ soloAtStart = <<>>
    /\ listErr = "none"
    /\ err = "nil"
    /\ cmds = <<>>
    /\ moveFailed = {}
    /\ graced = {}

cycleVars == <<channels, afkChannelId, allowedIdleChannels, clients, i, j,
               moves, fetched, soloAtStart, listErr, cmds, moveFailed,
               graced>>

\* ------------------------------------------------------------------ startup
\* NewClient, Login, Use; ok names the calls that succeed
StartupResults == [login : BOOLEAN, use : BOOLEAN]

startupFrame ==
    /\ UNCHANGED <<rev, allowGracePeriod, cycle, soloClients, recentJoins>>
    /\ UNCHANGED cycleVars

\* log.Fatal on a failed Login, plain return on a failed Use; no SetNick
Startup_main_go ==
    /\ rev = "main.go" /\ pc = "startup"
    /\ \E ok \in StartupResults :
          /\ pc' = IF ok.login /\ ok.use THEN "whoami" ELSE "exited"
          /\ err' = IF ~ ok.login THEN "login" ELSE IF ~ ok.use THEN "use" ELSE "nil"
    /\ startupFrame

Startup_part_001 ==
    /\ rev = "part_001" /\ pc = "startup"
    /\ \E ok \in StartupResults :
          /\ pc' = IF ok.login /\ ok.use THEN "nick" ELSE "exited"
          /\ err' = IF ~ ok.login THEN "login" ELSE IF ~ ok.use THEN "use" ELSE "nil"
    /\ startupFrame

Startup_part_002 ==
    /\ rev = "part_002" /\ pc = "startup"
    /\ \E ok \in StartupResults :
          /\ pc' = IF ok.login /\ ok.use THEN "nick" ELSE "exited"
          /\ err' = IF ~ ok.login THEN "login" ELSE IF ~ ok.use THEN "use" ELSE "nil"
    /\ startupFrame

\* err = client.SetNick(config.UserName); if err != nil { zap.S().Fatal(err) }
SetNick_part_001 ==
    /\ rev = "part_001" /\ pc = "nick"
    /\ \E ok \in BOOLEAN :
          /\ pc' = IF ok THEN "whoami" ELSE "exited"
          /\ err' = IF ok THEN "nil" ELSE "nick"
    /\ startupFrame

\* err = client.SetNick(config.UserName); if err != nil { zap.S().Warn(err) }
SetNick_part_002 ==
    /\ rev = "part_002" /\ pc = "nick"
    /\ \E ok \in BOOLEAN :
          /\ pc' = "whoami"
          /\ err' = IF ok THEN "nil" ELSE "nick"
    /\ startupFrame

\* whoami, err := Whoami(); fatal on error, else the poll loop begins
WhoamiStep ==
    /\ pc = "whoami"
    /\ \E ok \in BOOLEAN :
          /\ pc' = IF ok THEN "channels" ELSE "exited"
          /\ err' = IF ok THEN "nil" ELSE "whoami"
    /\ startupFrame

Whoami_main_go == rev = "main.go" /\ WhoamiStep

Whoami_part_001 == rev = "part_001" /\ WhoamiStep

Whoami_part_002 == rev = "part_002" /\ WhoamiStep

\* ------------------------------------------------------------- channel list
\* the loop over channels and the afkChannelId == 0 check, the same in all revisions
\* the channel loop without the afkChannelId == 0 check
ResolveChannels_noFatal(s) ==
    /\ channels' = s
    /\ afkChannelId' = AfkScan(s, 1, 0)
    /\ allowedIdleChannels' = AllowedScan(s, 1, <<>>)
    /\ pc' = "clients"
    /\ UNCHANGED listErr

ResolveChannels(s) ==
    /\ channels' = s
    /\ afkChannelId' = AfkScan(s, 1, 0)
    /\ allowedIdleChannels' = AllowedScan(s, 1, <<>>)
    /\ pc' = IF AfkScan(s, 1, 0) = 0 THEN "exited" ELSE "clients"
    /\ UNCHANGED listErr

ChannelList_main_go ==
    /\ rev = "main.go" /\ pc = "channels"
    /\ \/ /\ pc' = "exited"
          /\ listErr' = "channels"
          /\ UNCHANGED <<channels, afkChannelId, allowedIdleChannels>>
       \/ \E s \in ChannelSnapshots : ResolveChannels(s)
    /\ UNCHANGED <<rev, allowGracePeriod, cycle, clients, i, j, soloClients,
                   recentJoins, moves, fetched, soloAtStart, err, cmds, moveFailed,
                   graced>>

ChannelList_part_001 ==
    /\ rev = "part_001" /\ pc = "channels"
    /\ \/ /\ pc' = "abandoned"
          /\ listErr' = "channels"
          /\ UNCHANGED <<channels, afkChannelId, allowedIdleChannels>>
       \/ \E s \in ChannelSnapshots : ResolveChannels(s)
    /\ UNCHANGED <<rev, allowGracePeriod, cycle, clients, i, j, soloClients,
                   recentJoins, moves, fetched, soloAtStart, err, cmds, moveFailed,
                   graced>>

ChannelList_part_002 ==
    /\ rev = "part_002" /\ pc = "channels"
    /\ \/ /\ pc' = "abandoned"
          /\ listErr' = "channels"
          /\ UNCHANGED <<channels, afkChannelId, allowedIdleChannels>>
       \/ \E s \in ChannelSnapshots : ResolveChannels(s)
    /\ UNCHANGED <<rev, allowGracePeriod, cycle, clients, i, j, soloClients,
                   recentJoins, moves, fetched, soloAtStart, err, cmds, moveFailed,
                   graced>>

\* -------------------------------------------------------------- client list
GotClients(s) ==
    /\ clients' = s
    /\ i' = 1
    /\ j' = 1
    /\ pc' = IF Len(s) = 0 THEN "sleep" ELSE "loop"
    /\ UNCHANGED listErr

ClientList_main_go ==
    /\ rev = "main.go" /\ pc = "clients"
    /\ \/ /\ pc' = "exited"
          /\ listErr' = "clients"
          /\ UNCHANGED <<clients, i, j>>
       \/ \E s \in ClientSnapshots : GotClients(s)
    /\ UNCHANGED <<rev, allowGracePeriod, cycle, channels, afkChannelId,
                   allowedIdleChannels, soloClients, recentJoins, moves,
                   fetched, soloAtStart, err, cmds, moveFailed, graced>>

ClientList_part_001 ==
    /\ rev = "part_001" /\ pc = "clients"
    /\ \/ /\ pc' = "abandoned"
          /\ listErr' = "clients"
          /\ UNCHANGED <<clients, i, j>>
       \/ \E s \in ClientSnapshots : GotClients(s)
    /\ UNCHANGED <<rev, allowGracePeriod, cycle, channels, afkChannelId,
                   allowedIdleChannels, soloClients, recentJoins, moves,
                   fetched, soloAtStart, err, cmds, moveFailed, graced>>

ClientList_part_002 ==
    /\ rev = "part_002" /\ pc = "clients"
    /\ \/ /\ pc' = "abandoned"
          /\ listErr' = "clients"
          /\ UNCHANGED <<clients, i, j>>
       \/ \E s \in ClientSnapshots : GotClients(s)
    /\ UNCHANGED <<rev, allowGracePeriod, cycle, channels, afkChannelId,
                   allowedIdleChannels, soloClients, recentJoins, moves,
                   fetched, soloAtStart, err, cmds, moveFailed, graced>>

\* ------------------------------------------------ what a cycle has shown so far
Snapshot == Range(clients)
Moved(id) == \E k \in 1..Len(moves) : moves[k].clid = id
FetchedNotIdle(id) == \E p \in fetched : p[1] = id /\ p[2] <= MaxIdleTimeMs
FetchedIdle(id) == \E p \in fetched : p[1] = id /\ p[2] > MaxIdleTimeMs
InIgnoredChannel(c) ==
    \E k \in 1..Len(channels) :
        /\ channels[k].ID = c.ChannelID
        /\ channels[k].ChannelName \in Range(IgnoredChannels)
InAfkChannel(c) == c.ChannelID = afkChannelId
Alone(c) == \A d \in Snapshot : d.ChannelID = c.ChannelID => d.ID = c.ID
RecordedSolo(id) == id \in Range(soloClients)
WasRecordedSolo(id) == id \in Range(soloAtStart)

\* -------------------------------------------------------------- client loop
\* what one pass of a loop body leaves behind: the clientmove it sent, the
\* idle time it parsed, the soloClients it wrote
\* ok of a clientinfo: the reply gave an idle time the loop body could use;
\* eval: the loop body that sent it goes on to decide about the client
InfoCmd(c, ok, eval) ==
    [op |-> "clientinfo", clid |-> c.ID, ok |-> ok, eval |-> eval]
MoveCmd(c) == [op |-> "clientmove", clid |-> c.ID, ok |-> TRUE, eval |-> FALSE]

\* the loop body with clientmove naming the client's own channel as target
Outcome_moveToOwnChannel(c, r, d, moveOk) ==
    /\ moves' = IF d.move
                THEN Append(moves, [clid |-> c.ID, cid |-> c.ChannelID])
                ELSE moves
    /\ fetched' = IF IdleParsed(r) THEN fetched \cup {<<c.ID, r.idle>>} ELSE fetched
    /\ soloClients' = d.solo
    /\ cmds' = cmds \o <<InfoCmd(c, IdleParsed(r), TRUE)>>
                    \o (IF d.move THEN <<MoveCmd(c)>> ELSE <<>>)
    /\ moveFailed' = IF d.move /\ ~ moveOk THEN moveFailed \cup {c.ID}
                     ELSE moveFailed

\* the loop body sending clientmove ahead of the clientinfo it depends on
Outcome_moveBeforeInfo(c, r, d, moveOk) ==
    /\ moves' = IF d.move
                THEN Append(moves, [clid |-> c.ID, cid |-> afkChannelId])
                ELSE moves
    /\ fetched' = IF IdleParsed(r) THEN fetched \cup {<<c.ID, r.idle>>} ELSE fetched
    /\ soloClients' = d.solo
    /\ cmds' = cmds \o (IF d.move THEN <<MoveCmd(c)>> ELSE <<>>)
                    \o <<InfoCmd(c, IdleParsed(r), TRUE)>>
    /\ moveFailed' = IF d.move /\ ~ moveOk THEN moveFailed \cup {c.ID}
                     ELSE moveFailed

Outcome(c, r, d, moveOk) ==
    /\ moves' = IF d.move
                THEN Append(moves, [clid |-> c.ID, cid |-> afkChannelId])
                ELSE moves
    /\ fetched' = IF IdleParsed(r) THEN fetched \cup {<<c.ID, r.idle>>} ELSE fetched
    /\ soloClients' = d.solo
    /\ cmds' = cmds \o <<InfoCmd(c, IdleParsed(r), TRUE)>>
                    \o (IF d.move THEN <<MoveCmd(c)>> ELSE <<>>)
    /\ moveFailed' = IF d.move /\ ~ moveOk THEN moveFailed \cup {c.ID}
                     ELSE moveFailed

\* the loop body with break in place of continue after a failed clientinfo
Eval_main_go_breakOnError ==
    /\ rev = "main.go" /\ pc = "loop"
    /\ \E r \in ClientInfoResponses, moveOk \in BOOLEAN :
          /\ Outcome(clients[i], r, Decide_main_go(clients[i], r), moveOk)
          /\ pc' = IF i = Len(clients) \/ ~ IdleParsed(r) THEN "sleep" ELSE "loop"
    /\ i' = i + 1
    /\ UNCHANGED <<rev, allowGracePeriod, cycle, channels, afkChannelId,
                   allowedIdleChannels, clients, j, recentJoins, soloAtStart,
                   listErr, err, graced>>

Eval_main_go ==
    /\ rev = "main.go" /\ pc = "loop"
    /\ \E r \in ClientInfoResponses, moveOk \in BOOLEAN :
          Outcome(clients[i], r, Decide_main_go(clients[i], r), moveOk)
    /\ i' = i + 1
    /\ pc' = IF i = Len(clients) THEN "sleep" ELSE "loop"
    /\ UNCHANGED <<rev, allowGracePeriod, cycle, channels, afkChannelId,
                   allowedIdleChannels, clients, j, recentJoins, soloAtStart,
                   listErr, err, graced>>

Eval_part_001 ==
    /\ rev = "part_001" /\ pc = "loop"
    /\ \E r \in ClientInfoResponses, moveOk \in BOOLEAN :
          /\ Len(Decide_part_001(clients[i], r).solo) <= MaxSolo
          /\ Outcome(clients[i], r, Decide_part_001(clients[i], r), moveOk)
    /\ i' = i + 1
    /\ pc' = IF i = Len(clients) THEN "sleep" ELSE "loop"
    /\ UNCHANGED <<rev, allowGracePeriod, cycle, channels, afkChannelId,
                   allowedIdleChannels, clients, j, recentJoins, soloAtStart,
                   listErr, err, graced>>

\* part_002, outer loop: recent-join check, clientinfo, regex; then the inner loop
Outer_part_002 ==
    /\ rev = "part_002" /\ pc = "loop"
    /\ \E r \in ClientInfoResponses, within10s \in BOOLEAN :
          IF RecentJoin(clients[i], within10s)
          THEN /\ i' = i + 1
               /\ pc' = IF i = Len(clients) THEN "sleep" ELSE "loop"
               /\ UNCHANGED cmds
          ELSE /\ cmds' = Append(cmds, InfoCmd(clients[i],
                                               r.kind \in {"match", "range"},
                                               FALSE))
               /\ IF r.kind \in {"error", "nomatch"}
                  THEN /\ i' = i + 1
                       /\ pc' = IF i = Len(clients) THEN "sleep" ELSE "loop"
                  ELSE /\ i' = i
                       /\ pc' = "inner"
    /\ j' = 1
    /\ UNCHANGED <<rev, allowGracePeriod, cycle, channels, afkChannelId,
                   allowedIdleChannels, clients, soloClients, recentJoins,
                   moves, fetched, soloAtStart, listErr, err, moveFailed,
                   graced>>

\* part_002, inner loop: the same checks again for clients[j], then the decision
Inner_part_002 ==
    /\ rev = "part_002" /\ pc = "inner"
    /\ \E r \in ClientInfoResponses, within10s \in BOOLEAN, moveOk \in BOOLEAN :
          IF RecentJoin(clients[j], within10s)
          THEN UNCHANGED <<moves, fetched, soloClients, cmds, moveFailed>>
          ELSE Outcome(clients[j], r, Decide_part_002(clients[j], r), moveOk)
    /\ IF j < Len(clients)
       THEN /\ j' = j + 1
            /\ UNCHANGED <<i, pc>>
       ELSE /\ j' = 1
            /\ i' = i + 1
            /\ pc' = IF i = Len(clients) THEN "sleep" ELSE "loop"
    /\ UNCHANGED <<rev, allowGracePeriod, cycle, channels, afkChannelId,
                   allowedIdleChannels, clients, recentJoins, soloAtStart,
                   listErr, err, graced>>

\* ------------------------------------------------------------ the next cycle
\* c was recorded solo when the cycle began and this cycle found it idle, with
\* company, in a channel that is neither ignored nor the AFK one, and kept it
GraceSkipped(c) ==
    /\ WasRecordedSolo(c.ID)
    /\ FetchedIdle(c.ID)
    /\ ~ Alone(c) /\ ~ InIgnoredChannel(c) /\ ~ InAfkChannel(c)
    /\ ~ Moved(c.ID)

\* the locals of the loop body are declared anew; the package state stays
BeginCycle ==
    /\ cycle < MaxCycles
    /\ cycle' = cycle + 1
    /\ pc' = "channels"
    /\ channels' = <<>>
    /\ afkChannelId' = 0
    /\ allowedIdleChannels' = <<>>
    /\ clients' = <<>>
    /\ i' = 1
    /\ j' = 1
    /\ moves' = <<>>
    /\ fetched' = {}
    /\ soloAtStart' = soloClients
    /\ listErr' = "none"
    /\ cmds' = <<>>
    /\ moveFailed' = {}
    /\ graced' = {c.ID : c \in {d \in Snapshot : GraceSkipped(d)}}
    /\ UNCHANGED <<rev, allowGracePeriod, soloClients, recentJoins, err>>

\* time.Sleep(10 * time.Second) at the end of the loop body, then the next pass
Sleep_main_go ==
    /\ rev = "main.go" /\ pc = "sleep"
    /\ BeginCycle

\* also after a failed list call: time.Sleep(5 * time.Second); continue
Sleep_part_001 ==
    /\ rev = "part_001" /\ pc \in {"sleep", "abandoned"}
    /\ BeginCycle

\* processClients returns (after a failed list call too), main sleeps, next pass
Sleep_part_002 ==
    /\ rev = "part_002" /\ pc \in {"sleep", "abandoned"}
    /\ BeginCycle

Next ==
    \/ Startup_main_go \/ Startup_part_001 \/ Startup_part_002
    \/ SetNick_part_001 \/ SetNick_part_002
    \/ Whoami_main_go \/ Whoami_part_001 \/ Whoami_part_002
    \/ ChannelList_main_go \/ ChannelList_part_001 \/ ChannelList_part_002
    \/ ClientList_main_go \/ ClientList_part_001 \/ ClientList_part_002
    \/ Eval_main_go \/ Eval_part_001 \/ Outer_part_002 \/ Inner_part_002
    \/ Sleep_main_go \/ Sleep_part_001 \/ Sleep_part_002

Spec == Init /\ [][Next]_vars

TypeOK ==
    /\ rev \in Revisions
    /\ pc \in {"startup", "nick", "whoami", "channels", "clients", "loop",
               "inner", "sleep", "abandoned", "exited"}
    /\ err \in {"nil", "login", "use", "nick", "whoami"}
    /\ graced \subseteq ClientIds
    /\ cycle \in 1..MaxCycles
    /\ Len(soloClients) <= MaxSolo

CycleDone == pc = "sleep"
NoAfkChannel ==
    /\ channels # <<>>
    /\ \A k \in 1..Len(channels) : channels[k].ChannelName # AfkChannelName

\* --------------------------------------------------------------------- claims

\* C1: a client of the snapshot whose fetched idle time is at most MaxIdleTimeMs
\* (equality included) gets no clientmove in that cycle.
C1_NotIdleNeverMoved ==
    \A c \in Snapshot : FetchedNotIdle(c.ID) => ~ Moved(c.ID)

\* C2: a client whose channel has a name listed in IgnoredChannels gets no
\* clientmove, whatever its idle time and whoever shares the channel.
C2_IgnoredNeverMoved ==
    \A c \in Snapshot : InIgnoredChannel(c) => ~ Moved(c.ID)

C2_Witness ==
    /\ CycleDone
    /\ \E c \in Snapshot :
          InIgnoredChannel(c) /\ FetchedIdle(c.ID) /\ ~ Alone(c) /\ ~ Moved(c.ID)

\* C3: a client whose ChannelID is the resolved afkChannelId gets no clientmove,
\* in the first cycle and in every later one (a moved client that shows up in
\* the AFK channel is not moved again).
C3_AfkNeverMoved ==
    \A c \in Snapshot : InAfkChannel(c) => ~ Moved(c.ID)

C3_Witness ==
    /\ CycleDone
    /\ cycle > 1
    /\ \E c \in Snapshot :
          InAfkChannel(c) /\ FetchedIdle(c.ID) /\ ~ Alone(c) /\ ~ Moved(c.ID)

\* C4: at the end of a cycle, a client that was idle over the threshold, in a
\* channel neither ignored nor AFK, with no other client in its channel, has not
\* been moved and is recorded in the solo tracking.
C4_SoloKeptAndRecorded ==
    CycleDone =>
        \A c \in Snapshot :
            (FetchedIdle(c.ID) /\ ~ InIgnoredChannel(c) /\ ~ InAfkChannel(c) /\ Alone(c))
                => (~ Moved(c.ID) /\ RecordedSolo(c.ID))

\* C5: at the end of a cycle, a client that was idle over the threshold, in a
\* channel neither ignored nor AFK, sharing its channel, not recorded solo when
\* the cycle began (and with no recent join, recentJoins being empty), has been
\* sent a clientmove to the AFK channel, wherever it stands in the client list.
C5_IdleAccompaniedMoved ==
    CycleDone =>
        \A c \in Snapshot :
            (FetchedIdle(c.ID) /\ ~ InIgnoredChannel(c) /\ ~ InAfkChannel(c)
                /\ ~ Alone(c) /\ ~ WasRecordedSolo(c.ID)
                /\ c.ChannelID \notin DOMAIN recentJoins)
                => \E k \in 1..Len(moves) :
                      moves[k] = [clid |-> c.ID, cid |-> afkChannelId]

\* C6: with allowGracePeriod true, a client recorded solo when the cycle began,
\* still idle over the threshold and now sharing its (not exempt) channel, is not
\* moved in this cycle and is no longer recorded solo when the cycle ends.
C6_GraceSkipClearsSolo ==
    (CycleDone /\ allowGracePeriod) =>
        \A c \in Snapshot :
            (WasRecordedSolo(c.ID) /\ FetchedIdle(c.ID) /\ ~ Alone(c)
                /\ ~ InIgnoredChannel(c) /\ ~ InAfkChannel(c))
                => (~ Moved(c.ID) /\ ~ RecordedSolo(c.ID))

\* C7: with allowGracePeriod false, a client recorded solo when the cycle began,
\* still idle over the threshold, sharing its channel, the channel neither
\* ignored nor AFK, has been sent a clientmove to the AFK channel in this cycle.
C7_NoGraceMoved ==
    (CycleDone /\ ~ allowGracePeriod) =>
        \A c \in Snapshot :
            (WasRecordedSolo(c.ID) /\ FetchedIdle(c.ID) /\ ~ Alone(c)
                /\ ~ InIgnoredChannel(c) /\ ~ InAfkChannel(c))
                => \E k \in 1..Len(moves) :
                      moves[k] = [clid |-> c.ID, cid |-> afkChannelId]

\* C9: when no channel of the cycle's channel list is named AfkChannelName the
\* process has exited with no client list fetched, no clientinfo parsed and no
\* clientmove sent, and an exited process starts no further cycle.
C9_MissingAfkIsFatal ==
    /\ [](NoAfkChannel =>
            (pc = "exited" /\ clients = <<>> /\ fetched = {} /\ moves = <<>>))
    /\ [][pc = "exited" => pc' = "exited" /\ cycle' = cycle]_vars

C9_Witness == pc = "exited" /\ NoAfkChannel

\* C10: when ChannelList or ClientList fails, the cycle is abandoned: the process
\* has not exited, no client was evaluated, no clientmove was sent, soloClients
\* and recentJoins are as they were when the cycle began.
C10_ListFailureAbandonsCycle ==
    listErr # "none" =>
        /\ pc # "exited"
        /\ fetched = {}
        /\ moves = <<>>
        /\ soloClients = soloAtStart
        /\ recentJoins = <<>>

\* ------------------------------------------------- what the command log shows
InfoFailed(id) ==
    \E k \in 1..Len(cmds) :
        cmds[k].op = "clientinfo" /\ cmds[k].clid = id /\ ~ cmds[k].ok
Failed(id) == InfoFailed(id) \/ id \in moveFailed
Evaluated(id) == \E p \in fetched : p[1] = id

C12_CoOccupantsBothMovedInOrder ==
    CycleDone =>
        \A a, b \in 1..Len(clients) :
            ( /\ a < b
              /\ clients[a].ChannelID = clients[b].ChannelID
              /\ ~ InIgnoredChannel(clients[a]) /\ ~ InAfkChannel(clients[a])
              /\ \A x \in {clients[a].ID, clients[b].ID} :
                    /\ FetchedIdle(x) /\ ~ FetchedNotIdle(x) /\ ~ Failed(x)
                    /\ ~ WasRecordedSolo(x) )
            => \E k, l \in 1..Len(moves) :
                   /\ k < l
                   /\ moves[k].clid = clients[a].ID
                   /\ moves[l].clid = clients[b].ID

\* C13: every clientmove of the cycle names the id of a client of the current
\* client snapshot and, as target, the id of a channel of the current channel
\* snapshot whose name is the configured AFK channel name.
C13_MoveNamesSnapshotClientAndAfkChannel ==
    \A k \in 1..Len(moves) :
        /\ \E c \in Snapshot : c.ID = moves[k].clid
        /\ \E n \in 1..Len(channels) :
              /\ channels[n].ID = moves[k].cid
              /\ channels[n].ChannelName = AfkChannelName

\* a move in a later cycle, whose AFK channel has another id than the channel
\* the moved client was in
C13_Witness ==
    /\ cycle > 1
    /\ moves # <<>>
    /\ \E c \in Snapshot : c.ID = moves[1].clid /\ c.ChannelID # moves[1].cid

\* C14: the grace skip shields one cycle only: a client that was recorded
\* solo, was kept by the grace skip in the cycle before this one, and in this
\* cycle is again fetched idle with company in a channel that is neither
\* ignored nor the AFK one, has been moved when this cycle is done.
C14_GraceShieldsOneCycle ==
    CycleDone =>
        \A c \in Snapshot :
            ( /\ c.ID \in graced
              /\ FetchedIdle(c.ID)
              /\ ~ Alone(c) /\ ~ InIgnoredChannel(c) /\ ~ InAfkChannel(c) )
            => Moved(c.ID)

Evaluations(id) ==
    {k \in 1..Len(cmds) :
        cmds[k].op = "clientinfo" /\ cmds[k].clid = id /\ cmds[k].eval}
MoveCmds(id) ==
    {k \in 1..Len(cmds) : cmds[k].op = "clientmove" /\ cmds[k].clid = id}

\* C15: within one cycle every client is evaluated at most once (the loop
\* body that decides about it runs once per client id) and at most one
\* clientmove is sent per client id.
C15_OncePerClientPerCycle ==
    \A id \in ClientIds :
        /\ Cardinality(Evaluations(id)) <= 1
        /\ Cardinality(MoveCmds(id)) <= 1
        /\ Cardinality({k \in 1..Len(moves) : moves[k].clid = id}) <= 1

\* this cycle's evaluation reached the solo check and found c alone / in company
IdleAloneNow(c) ==
    FetchedIdle(c.ID) /\ Alone(c) /\ ~ InIgnoredChannel(c) /\ ~ InAfkChannel(c)
IdleAccompaniedNow(c) ==
    FetchedIdle(c.ID) /\ ~ Alone(c) /\ ~ InIgnoredChannel(c) /\ ~ InAfkChannel(c)

\* C16: when a cycle is done, an id is in soloClients only if this cycle
\* found the client idle and alone, or the id was there when the cycle began
\* and this cycle did not find the client idle with company (cycle by cycle
\* this is: found idle and alone at some time, and not found idle with
\* company since).  A client found idle with company that was not recorded
\* when the cycle began gets no grace skip: it has been moved and is not
\* recorded.
C16_SoloRecordOnlyAfterSoloFinding ==
    CycleDone =>
        /\ \A c \in Snapshot :
              RecordedSolo(c.ID) =>
                  \/ IdleAloneNow(c)
                  \/ WasRecordedSolo(c.ID) /\ ~ IdleAccompaniedNow(c)
        /\ \A id \in ClientIds :
              (RecordedSolo(id) /\ ~ \E c \in Snapshot : c.ID = id)
                  => WasRecordedSolo(id)
        /\ \A c \in Snapshot :
              (IdleAccompaniedNow(c) /\ ~ WasRecordedSolo(c.ID))
                  => Moved(c.ID) /\ ~ RecordedSolo(c.ID)

\* C17: recentJoins is never written: it has no entry in any reachable state,
\* and the recent-join skip is never taken: every pass of a client loop body
\* of part_002 gets as far as sending its clientinfo.
C17_RecentJoinSkipNeverTaken ==
    /\ [](DOMAIN recentJoins = {})
    /\ [][(rev = "part_002" /\ pc \in {"loop", "inner"})
              => Len(cmds') > Len(cmds)]_vars

\* part_002 has finished a cycle in which both clients were evaluated
C17_Witness ==
    /\ rev = "part_002"
    /\ CycleDone
    /\ Len(clients) = 2
    /\ \A c \in Snapshot : Evaluations(c.ID) # {}

\* C18 as stated: within a cycle no clientinfo query is sent after a
\* clientmove command.
C18_NoInfoAfterMove ==
    \A k, l \in 1..Len(cmds) :
        (k < l /\ cmds[k].op = "clientmove") => cmds[l].op # "clientinfo"

\* C18, amended: decision and action alternate client by client: every
\* clientmove is sent directly after the clientinfo query of the same client,
\* which gave a usable idle time and belongs to the evaluation of that client.
C18_MoveFollowsOwnInfo ==
    \A k \in 1..Len(cmds) :
        cmds[k].op = "clientmove" =>
            /\ k > 1
            /\ cmds[k - 1] = InfoCmd([ID |-> cmds[k].clid], TRUE, TRUE)

\* a cycle in which the first client was moved and the second client was
\* queried after that move
C18_Witness ==
    /\ CycleDone
    /\ Len(clients) = 2
    /\ \E k, l \in 1..Len(cmds) :
          /\ k < l
          /\ cmds[k].op = "clientmove" /\ cmds[k].clid = clients[1].ID
          /\ cmds[l].op = "clientinfo" /\ cmds[l].clid = clients[2].ID

\* the client the next pass of the loop body is about
Current == IF pc = "inner" THEN clients[j] ELSE clients[i]

\* C19: a pass of the loop body that leaves its client before the solo check
\* (the client is in an ignored channel, or in the AFK channel, or the pass
\* brought no idle time over the threshold for it) leaves soloClients as it
\* was, whether or not the client is alone in its channel.
C19_EarlySkipKeepsSoloRecord ==
    [][(pc \in {"loop", "inner"} /\ i \in 1..Len(clients))
          => ( ( \/ InIgnoredChannel(Current)
                 \/ InAfkChannel(Current)
                 \/ ~ \E p \in fetched' \ fetched :
                         p[1] = Current.ID /\ p[2] > MaxIdleTimeMs )
               => soloClients' = soloClients )]_vars

\* part_001 has evaluated a client that idles alone in an ignored channel,
\* and another that sits alone below the threshold; neither is recorded
C19_Witness ==
    /\ rev = "part_001"
    /\ CycleDone
    /\ \E c, d \in Snapshot :
          /\ Alone(c) /\ InIgnoredChannel(c) /\ FetchedIdle(c.ID)
          /\ Alone(d) /\ FetchedNotIdle(d.ID) /\ ~ InIgnoredChannel(d)
          /\ ~ RecordedSolo(c.ID) /\ ~ RecordedSolo(d.ID)

\* C20: a failed SetNick does not end the process, which goes on to Whoami
\* (and from there into the poll loop); after a failed Login or a failed Use
\* the process has exited and no cycle has fetched or sent anything.
C20_NickFailureNonFatal ==
    /\ err = "nick" => pc = "whoami"
    /\ err \in {"login", "use"} =>
          /\ pc = "exited"
          /\ cycle = 1
          /\ channels = <<>> /\ clients = <<>> /\ cmds = <<>>

Occurrences(id) == {k \in 1..Len(soloClients) : soloClients[k] = id}

\* C21: soloClients holds at most one entry per client id in every reachable
\* state, so it is never longer than the number of client ids there are.
C21_SoloRecordHasNoDuplicates ==
    /\ \A id \in ClientIds : Cardinality(Occurrences(id)) <= 1
    /\ Len(soloClients) <= Cardinality(ClientIds)
====
